---- MODULE Spec2Model ----
(***************************************************************************)
(* Siren hypermedia resolution of fastapi-hypermodel.                      *)
(*                                                                         *)
(* A Siren model class declares link descriptors (SirenLinkFor) and action *)
(* descriptors (SirenActionFor).  Constructing an instance runs the model  *)
(* validators of SirenHyperModel in their declaration order:               *)
(*   add_hypermodels_to_entities, add_properties, add_links, add_actions,  *)
(*   no_action_outside_of_actions.                                         *)
(* The descriptors are objects: SirenActionFor.__call__ writes its private *)
(* attributes _method, _fields and _type, which therefore are state.       *)
(***************************************************************************)
EXTENDS Integers, Sequences, FiniteSets, TLC

VARIABLES
    app,        \* HyperModel._app: not initialised, or the application's routes
    cls,        \* the model class under construction: its declared descriptors
    actions,    \* the class's SirenActionFor objects (their private attributes)
    last,       \* the last construction: its input and what it returned or raised
    response,   \* the SirenResponse being rendered: where render is, and its body
    found       \* the last lookup in a received envelope: its key and its result

vars == <<app, cls, actions, last, response, found>>

None == "None"

-----------------------------------------------------------------------------
(* Python values.  A value carries its type, so that truthiness and str()  *)
(* are computed the way Python computes them.                              *)

VNone == [t |-> "none"]
VUndef == [t |-> "undef"]
VStr(s) == [t |-> "str", s |-> s]
VBool(b) == [t |-> "bool", b |-> b]
VInt(i) == [t |-> "int", i |-> i]
VList(items) == [t |-> "list", items |-> items]
VModel(env) == [t |-> "model", env |-> env]
VLink(link) == [t |-> "link", link |-> link]
VAction(action) == [t |-> "action", action |-> action]

Truthy(v) ==
    CASE v.t = "none" -> FALSE
      [] v.t = "str" -> v.s # ""
      [] v.t = "bool" -> v.b
      [] v.t = "int" -> v.i # 0
      [] v.t = "list" -> v.items # <<>>
      [] OTHER -> TRUE

IntStr(i) ==
    CASE i = 0 -> "0"
      [] i = 1 -> "1"
      [] i = 2 -> "2"
      [] i = 3 -> "3"
      [] OTHER -> "n"

PyStr(v) ==
    CASE v.t = "none" -> "None"
      [] v.t = "undef" -> "PydanticUndefined"
      [] v.t = "str" -> v.s
      [] v.t = "bool" -> (IF v.b THEN "True" ELSE "False")
      [] v.t = "int" -> IntStr(v.i)
      [] OTHER -> "object"

\* dict[k] = v
Put(d, k, v) == [x \in (DOMAIN d) \cup {k} |-> IF x = k THEN v ELSE d[x]]

EmptyDict == <<>>

-----------------------------------------------------------------------------
(* Routes.  A path is a sequence of segments, a segment a literal or a     *)
(* {name} placeholder.                                                     *)

Lit(s) == [p |-> FALSE, s |-> s]
Par(s) == [p |-> TRUE, s |-> s]

PathParams(path) == {path[i].s : i \in {j \in DOMAIN path : path[j].p}}

\* HyperModel._app: None before init_app, the application after it
NoApp == [is_none |-> TRUE, routes |-> <<>>]
Starlette(routes) == [is_none |-> FALSE, routes |-> routes]
IsNoApp(a) == a.is_none

RouteNames(a) == {a.routes[i].name : i \in DOMAIN a.routes}

HasRoute(a, endpoint) == endpoint \in RouteNames(a)

\* get_route_from_app: the first route of that name
get_route_from_app(a, endpoint) ==
    a.routes[CHOOSE i \in DOMAIN a.routes :
        /\ a.routes[i].name = endpoint
        /\ \A j \in DOMAIN a.routes : a.routes[j].name = endpoint => i <= j]

\* resolve_param_values: {param: template} against the values
IsTag(tpl) == tpl.tag

MissingAttrs(param_values, values) ==
    {k \in DOMAIN param_values :
        IsTag(param_values[k]) /\ param_values[k].name \notin DOMAIN values}

resolve_param_values(param_values, values) ==
    [k \in DOMAIN param_values |->
        IF IsTag(param_values[k])
        THEN PyStr(values[param_values[k].name])
        ELSE param_values[k].name]

\* Starlette's url_path_for: the route of that name whose path parameters
\* are exactly the given ones, each placeholder replaced by its value
Matches(route, endpoint, params) ==
    route.name = endpoint /\ PathParams(route.path) = DOMAIN params

CanBuildUrl(a, endpoint, params) ==
    \E i \in DOMAIN a.routes : Matches(a.routes[i], endpoint, params)

url_path_for(a, endpoint, params) ==
    LET i == CHOOSE k \in DOMAIN a.routes :
                /\ Matches(a.routes[k], endpoint, params)
                /\ \A j \in DOMAIN a.routes :
                        Matches(a.routes[j], endpoint, params) => k <= j
        path == a.routes[i].path
    IN [k \in DOMAIN path |->
            IF path[k].p THEN Lit(params[path[k].s]) ELSE path[k]]

-----------------------------------------------------------------------------
(* Conditions: the predicates the descriptors of the example carry.        *)

CanEval(condition, values) ==
    condition = "Unlocked" => "is_locked" \in DOMAIN values

EvalCondition(condition, values) ==
    CASE condition = "Unlocked" -> ~Truthy(values["is_locked"])
      [] OTHER -> TRUE

-----------------------------------------------------------------------------
(* Outcomes of a call or of a construction.                                *)

Omitted == [status |-> "omitted", error |-> None]
Raised(e) == [status |-> "error", error |-> e]
Returned(v) == [status |-> "ok", error |-> None, value |-> v]

-----------------------------------------------------------------------------
(* SirenLinkType and SirenLinkFor.                                         *)

Tag(name) == [tag |-> TRUE, name |-> name]
Literal(text) == [tag |-> FALSE, name |-> text]

\* SirenLinkType.mandatory: rel and href are validated non-empty
\* mutant: only href is validated
LinkMandatoryOk_href(fields) == fields.href # <<>>

LinkMandatoryOk(fields) == fields.rel # <<>> /\ fields.href # <<>>

\* SirenLinkType.model_validate
SirenLinkType(fields) ==
    IF LinkMandatoryOk(fields)
    THEN Returned([rel |-> fields.rel, href |-> fields.href,
                   title |-> fields.title, type_ |-> fields.type_,
                   class_ |-> fields.class_])
    ELSE Raised("InvalidField")

\* SirenLinkFor.__init__
SirenLinkFor(endpoint, param_values, templated, condition, rel) ==
    [endpoint |-> endpoint, param_values |-> param_values,
     templated |-> templated, condition |-> condition,
     title |-> None, type_ |-> None, rel |-> rel, class_ |-> None]

\* app.url_path_for(self._endpoint, **params)
UrlFor(a, endpoint, params) ==
    IF CanBuildUrl(a, endpoint, params)
    THEN Returned(url_path_for(a, endpoint, params))
    ELSE Raised("NoMatchFound")

\* mutant: templated is not looked at
GetUriPath_resolved(d, a, values, route) ==
    IF MissingAttrs(d.param_values, values) # {}
    THEN Raised("MissingAttribute")
    ELSE UrlFor(a, d.endpoint, resolve_param_values(d.param_values, values))

\* SirenLinkFor._get_uri_path; SirenActionFor._get_uri_path is the same code
GetUriPath(d, a, values, route) ==
    IF d.templated
    THEN Returned(route.path)
    ELSE IF MissingAttrs(d.param_values, values) # {}
    THEN Raised("MissingAttribute")
    ELSE UrlFor(a, d.endpoint, resolve_param_values(d.param_values, values))

\* values.get("properties", values)
PropertiesOf(values) ==
    IF "properties" \in DOMAIN values THEN values["properties"] ELSE values

\* SirenLinkFor.__call__, from the uri path on
LinkAssemble(d, uri_path) ==
    IF uri_path.status = "error" THEN uri_path
    ELSE SirenLinkType([href |-> uri_path.value, rel |-> d.rel,
                        title |-> d.title, type_ |-> d.type_,
                        class_ |-> d.class_])

\* mutant: an endpoint without a route is omitted
LinkCall_silent(d, a, values) ==
    IF IsNoApp(a) THEN Omitted
    ELSE IF d.condition # None /\ ~CanEval(d.condition, values)
    THEN Raised("PredicateError")
    ELSE IF d.condition # None /\ ~EvalCondition(d.condition, values)
    THEN Omitted
    ELSE IF ~HasRoute(a, d.endpoint) THEN Omitted
    ELSE LinkAssemble(d, GetUriPath(d, a, PropertiesOf(values),
                                    get_route_from_app(a, d.endpoint)))

\* SirenLinkFor.__call__
LinkCall(d, a, values) ==
    IF IsNoApp(a) THEN Omitted
    ELSE IF d.condition # None /\ ~CanEval(d.condition, values)
    THEN Raised("PredicateError")
    ELSE IF d.condition # None /\ ~EvalCondition(d.condition, values)
    THEN Omitted
    ELSE IF ~HasRoute(a, d.endpoint) THEN Raised("UnknownRoute")
    ELSE LinkAssemble(d, GetUriPath(d, a, PropertiesOf(values),
                                    get_route_from_app(a, d.endpoint)))

-----------------------------------------------------------------------------
(* SirenFieldType, SirenActionType and SirenActionFor.                     *)

\* text_type in type_repr: whether sub occurs in s, both character sequences
Contains(s, sub) ==
    \E i \in 0..(Len(s) - Len(sub)) :
        \A j \in 1..Len(sub) : s[i + j] = sub[j]

\* SirenFieldType.parse_type, on repr(python_type)
parse_type(type_repr) ==
    IF Contains(type_repr, <<"s", "t", "r">>) THEN "text"
    ELSE IF \/ Contains(type_repr, <<"f", "l", "o", "a", "t">>)
            \/ Contains(type_repr, <<"i", "n", "t">>)
    THEN "number"
    ELSE "text"

\* SirenFieldType.from_field_info
from_field_info(name, field_info) ==
    [name |-> name, type_ |-> parse_type(field_info.annotation),
     value |-> field_info.default]

\* SirenActionType.mandatory: name and href are validated non-empty
ActionMandatoryOk(fields) == fields.name # "" /\ fields.href # <<>>

\* SirenActionType.model_validate; method is declared str, None is refused
SirenActionType(fields) ==
    IF ~ActionMandatoryOk(fields) THEN Raised("InvalidField")
    ELSE IF fields.method = None THEN Raised("InvalidMethod")
    ELSE Returned([name |-> fields.name, method |-> fields.method,
                   href |-> fields.href, type_ |-> fields.type_,
                   fields |-> fields.fields, templated |-> fields.templated,
                   title |-> fields.title, class_ |-> fields.class_])

\* SirenActionFor.__init__
SirenActionFor(endpoint, param_values, templated, condition, populate_fields, type_, fields, method, name) ==
    [endpoint |-> endpoint, param_values |-> param_values,
     templated |-> templated, condition |-> condition,
     populate_fields |-> populate_fields, title |-> None, type_ |-> type_,
     fields |-> fields, method |-> method, name |-> name, class_ |-> None]

\* values.get(name)
Get(values, name) == IF name \in DOMAIN values THEN values[name] ELSE VNone

\* x or y
Or(x, y) == IF Truthy(x) THEN x ELSE y

\* str(values.get(field.name) or field.value)
PrepopulatedValue(field, values) ==
    VStr(PyStr(Or(Get(values, field.name), field.value)))

\* SirenActionFor._prepopulate_fields
_prepopulate_fields(d, fields, values) ==
    IF ~d.populate_fields THEN fields
    ELSE [i \in DOMAIN fields |->
            [fields[i] EXCEPT !.value = PrepopulatedValue(fields[i], values)]]

\* SirenActionFor._compute_fields
_compute_fields(d, route, values) ==
    IF ~route.has_body THEN <<>>
    ELSE _prepopulate_fields(
            d,
            [i \in DOMAIN route.body |->
                from_field_info(route.body[i].name, route.body[i])],
            values)

\* next(iter(route.methods or {}), None): methods is kept in the set's
\* iteration order
\* mutant: the default of SirenActionType.method is taken
FirstMethod_default(route) ==
    IF route.methods = <<>> THEN None ELSE "GET"

FirstMethod(route) ==
    IF route.methods = <<>> THEN None ELSE Head(route.methods)

\* if not self._method: self._method = next(iter(route.methods or {}), None)
WithMethod(d, route) ==
    IF d.method = None THEN [d EXCEPT !.method = FirstMethod(route)] ELSE d

\* if not self._fields: self._fields = self._compute_fields(route, values)
WithFields(d, route, values) ==
    IF d.fields = <<>>
    THEN [d EXCEPT !.fields = _compute_fields(d, route, values)]
    ELSE d

\* if not self._type and self._fields: self._type = "application/x-www-..."
WithType(d) ==
    IF d.type_ = None /\ d.fields # <<>>
    THEN [d EXCEPT !.type_ = "application/x-www-form-urlencoded"]
    ELSE d

\* SirenActionFor.__call__, from the model_validate on
ActionAssemble(d, uri_path) ==
    [out |-> SirenActionType(
                [href |-> uri_path.value, name |-> d.name, fields |-> d.fields,
                 method |-> d.method, title |-> d.title, type_ |-> d.type_,
                 class_ |-> d.class_, templated |-> d.templated]),
     d |-> d]

\* mutant: the media type is decided before the fields are computed
ActionFromUri_type_first(d, uri_path, route, values) ==
    IF uri_path.status = "error" THEN [out |-> uri_path, d |-> d]
    ELSE ActionAssemble(WithFields(WithType(d), route, values), uri_path)

\* SirenActionFor.__call__, from the uri path on: d has its method
ActionFromUri(d, uri_path, route, values) ==
    IF uri_path.status = "error" THEN [out |-> uri_path, d |-> d]
    ELSE ActionAssemble(WithType(WithFields(d, route, values)), uri_path)

\* SirenActionFor.__call__, from the route on
ActionFromMethod(d, a, values, route) ==
    ActionFromUri(d, GetUriPath(d, a, values, route), route, values)

ActionFromRoute(d, a, values, route) ==
    ActionFromMethod(WithMethod(d, route), a, values, route)

\* mutant: the condition is evaluated before the application is looked at
ActionCall_condition_first(d, a, values) ==
    IF d.condition # None /\ ~CanEval(d.condition, values)
    THEN [out |-> Raised("PredicateError"), d |-> d]
    ELSE IF d.condition # None /\ ~EvalCondition(d.condition, values)
    THEN [out |-> Omitted, d |-> d]
    ELSE IF IsNoApp(a) THEN [out |-> Omitted, d |-> d]
    ELSE IF ~HasRoute(a, d.endpoint)
    THEN [out |-> Raised("UnknownRoute"), d |-> d]
    ELSE ActionFromRoute(d, a, values, get_route_from_app(a, d.endpoint))

\* SirenActionFor.__call__: the outcome and the descriptor as the call left it
ActionCall(d, a, values) ==
    IF IsNoApp(a) THEN [out |-> Omitted, d |-> d]
    ELSE IF d.condition # None /\ ~CanEval(d.condition, values)
    THEN [out |-> Raised("PredicateError"), d |-> d]
    ELSE IF d.condition # None /\ ~EvalCondition(d.condition, values)
    THEN [out |-> Omitted, d |-> d]
    ELSE IF ~HasRoute(a, d.endpoint)
    THEN [out |-> Raised("UnknownRoute"), d |-> d]
    ELSE ActionFromRoute(d, a, values, get_route_from_app(a, d.endpoint))

-----------------------------------------------------------------------------
(* SirenHyperModel: an instance under construction is its structural       *)
(* fields and attrs, the declared fields still set on it, in order.  A     *)
(* field is [name, alias, value].                                          *)

SIREN_RESERVED_FIELDS == {"properties", "entities", "links", "actions"}

FieldOf(name, alias, value) == [name |-> name, alias |-> alias, value |-> value]

\* self.model_fields[name].alias or name
AliasOf(f) == IF f.alias # None THEN f.alias ELSE f.name

\* isinstance(field, Sequence): str is a Sequence too
IsSequence(v) == v.t \in {"str", "list"}

\* field if isinstance(field, Sequence) else [field]; the characters of a
\* str are str, one stands for them all
Elements(v) ==
    CASE v.t = "list" -> v.items
      [] v.t = "str" -> (IF v.s = "" THEN <<>> ELSE <<VStr(v.s)>>)
      [] OTHER -> <<v>>

\* isinstance(element, (SirenHyperModel, SirenLinkType))
IsHyper(e) == e.t \in {"model", "link"}

\* isinstance(value_, omit_types)
IsOmitType(e) == e.t \in {"model", "link", "action"}

\* the model_serializer of SirenBase and of SirenHyperModel: the fields
\* with a truthy value
SerializedKeys(env) ==
    {k \in {"properties", "entities", "links", "actions"} : env[k] # <<>>}

\* the truthy fields left as attributes that serialize under the key; they
\* come after properties, entities, links and actions in the iteration, and
\* the last value a key is given stays
AttrsUnder(env, k) ==
    {j \in DOMAIN env.attrs :
        Truthy(env.attrs[j].value) /\ AliasOf(env.attrs[j]) = k}

LastOf(S) == CHOOSE j \in S : \A i \in S : i <= j

serialize(env) ==
    [k \in SerializedKeys(env) \cup {AliasOf(env.attrs[i]) : i \in
            {j \in DOMAIN env.attrs : Truthy(env.attrs[j].value)}} |->
        IF AttrsUnder(env, k) # {}
        THEN env.attrs[LastOf(AttrsUnder(env, k))].value
        ELSE env[k]]

\* SirenEmbeddedType(rel=[rel], **field.model_dump()): the fields of
\* SirenEntityType the dump gives are kept, others are ignored
SirenEmbeddedType(rel, dump) ==
    [k \in ((DOMAIN dump) \cap {"properties", "entities", "links", "actions"})
            \cup {"rel"} |->
        IF k = "rel" THEN rel ELSE dump[k]]

as_embedded(field, rel) == SirenEmbeddedType(<<rel>>, serialize(field.env))

\* the entities one field gives
EntitiesOf(value, alias) ==
    [i \in DOMAIN value |->
        IF value[i].t = "link" THEN value[i].link
        ELSE as_embedded(value[i], alias)]

\* mutant: the name of the field, not its alias
EntitiesOfField_name(f) == EntitiesOf(Elements(f.value), f.name)

EntitiesOfField(f) == EntitiesOf(Elements(f.value), AliasOf(f))

\* whether add_hypermodels_to_entities moves the field to entities
AllHyper(value) == \A i \in DOMAIN value : IsHyper(value[i])

MovesToEntities(f) ==
    /\ AliasOf(f) \notin SIREN_RESERVED_FIELDS
    /\ AllHyper(Elements(f.value))

RECURSIVE EntitiesLoop(_, _, _)
EntitiesLoop(todo, entities, kept) ==
    IF todo = <<>> THEN [entities |-> entities, attrs |-> kept]
    ELSE LET f == Head(todo)
         IN IF MovesToEntities(f)
            THEN EntitiesLoop(Tail(todo), entities \o EntitiesOfField(f), kept)
            ELSE EntitiesLoop(Tail(todo), entities, Append(kept, f))

\* SirenHyperModel.add_hypermodels_to_entities
SetEntities(inst, r) == [inst EXCEPT !.entities = r.entities, !.attrs = r.attrs]

add_hypermodels_to_entities(inst) ==
    SetEntities(inst, EntitiesLoop(inst.attrs, <<>>, <<>>))

\* whether add_properties moves the field to properties
AnyOmitType(value) == \E i \in DOMAIN value : IsOmitType(value[i])

MovesToProperties(f) ==
    /\ AliasOf(f) \notin SIREN_RESERVED_FIELDS
    /\ ~AnyOmitType(Elements(f.value))

RECURSIVE PropertiesLoop(_, _, _)
PropertiesLoop(todo, properties, kept) ==
    IF todo = <<>> THEN [properties |-> properties, attrs |-> kept]
    ELSE LET f == Head(todo)
         IN IF MovesToProperties(f)
            THEN PropertiesLoop(Tail(todo),
                                Put(properties, AliasOf(f), f.value), kept)
            ELSE PropertiesLoop(Tail(todo), properties, Append(kept, f))

\* SirenHyperModel.add_properties
SetProperties(inst, r) ==
    [inst EXCEPT !.properties = r.properties, !.attrs = r.attrs]

add_properties(inst) ==
    SetProperties(inst, PropertiesLoop(inst.attrs, inst.properties, <<>>))

\* element_factory(self._app, properties)
Call(kind, d, a, values) ==
    IF kind = "link" THEN [out |-> LinkCall(d, a, values), d |-> d]
    ELSE ActionCall(d, a, values)

\* mutant: a validated element is put in front
RECURSIVE _validate_factory_front(_, _, _, _, _, _)
FactoryStep_front(kind, todo, a, properties, validated, called, r) ==
    IF r.out.status = "error"
    THEN [out |-> r.out, called |-> Append(called, r.d) \o Tail(todo)]
    ELSE IF r.out.status = "omitted"
    THEN _validate_factory_front(kind, Tail(todo), a, properties, validated,
                                 Append(called, r.d))
    ELSE _validate_factory_front(kind, Tail(todo), a, properties,
                                 <<r.out.value>> \o validated,
                                 Append(called, r.d))

_validate_factory_front(kind, todo, a, properties, validated, called) ==
    IF todo = <<>> THEN [out |-> Returned(validated), called |-> called]
    ELSE FactoryStep_front(kind, todo, a, properties, validated, called,
                           Call(kind, Head(todo), a, properties))

\* SirenHyperModel._validate_factory: the validated elements, or the first
\* error, and the factories as the calls left them
RECURSIVE _validate_factory(_, _, _, _, _, _)
FactoryStep(kind, todo, a, properties, validated, called, r) ==
    IF r.out.status = "error"
    THEN [out |-> r.out, called |-> Append(called, r.d) \o Tail(todo)]
    ELSE IF r.out.status = "omitted"
    THEN _validate_factory(kind, Tail(todo), a, properties, validated,
                           Append(called, r.d))
    ELSE _validate_factory(kind, Tail(todo), a, properties,
                           Append(validated, r.out.value), Append(called, r.d))

_validate_factory(kind, todo, a, properties, validated, called) ==
    IF todo = <<>> THEN [out |-> Returned(validated), called |-> called]
    ELSE FactoryStep(kind, todo, a, properties, validated, called,
                     Call(kind, Head(todo), a, properties))

\* mutant: only the first link is looked at
validate_has_self_link_first(links) ==
    \/ links = <<>>
    \/ links[1].rel = <<"self">>

\* mutant: the check is skipped
validate_has_self_link_skipped(links) == Len(links) >= 0

\* SirenHyperModel.validate_has_self_link
validate_has_self_link(links) ==
    \/ links = <<>>
    \/ \E i \in DOMAIN links : links[i].rel = <<"self">>

\* SirenHyperModel.add_links, from the validated links on
SetLinks(inst, r) ==
    IF r.out.status = "error" THEN r.out
    ELSE IF ~validate_has_self_link(r.out.value) THEN Raised("MissingSelfLink")
    ELSE Returned([inst EXCEPT !.links = r.out.value])

\* SirenHyperModel.add_links
add_links(inst, a) ==
    IF inst.links = <<>> THEN Returned(inst)
    ELSE SetLinks(inst, _validate_factory("link", inst.links, a,
                                          inst.properties, <<>>, <<>>))

\* SirenHyperModel.add_actions, from the validated actions on
SetActions(inst, r) ==
    IF r.out.status = "error" THEN r
    ELSE [out |-> Returned([inst EXCEPT !.actions = r.out.value]),
          called |-> r.called]

\* SirenHyperModel.add_actions: the outcome and the descriptors afterwards
add_actions(inst, a) ==
    IF inst.actions = <<>> THEN [out |-> Returned(inst), called |-> <<>>]
    ELSE SetActions(inst, _validate_factory("action", inst.actions, a,
                                            inst.properties, <<>>, <<>>))

\* SirenHyperModel.no_action_outside_of_actions
no_action_outside_of_actions(inst) ==
    \A i \in DOMAIN inst.attrs : inst.attrs[i].value.t # "action"

\* the validators after add_actions
AfterActions(r4) ==
    IF r4.out.status = "error" THEN [out |-> r4.out, acts |-> r4.called]
    ELSE IF ~no_action_outside_of_actions(r4.out.value)
    THEN [out |-> Raised("ActionOutside"), acts |-> r4.called]
    ELSE [out |-> r4.out, acts |-> r4.called]

\* the validators after add_links
AfterLinks(r3, a, acts) ==
    IF r3.status = "error" THEN [out |-> r3, acts |-> acts]
    ELSE AfterActions(add_actions(r3.value, a))

\* the model validators in their order: the outcome of the construction and
\* the action descriptors afterwards
Construct(a, links, acts, fields) ==
    AfterLinks(
        add_links(
            add_properties(
                add_hypermodels_to_entities(
                    [properties |-> EmptyDict, entities |-> <<>>,
                     links |-> links, actions |-> acts, attrs |-> fields])),
            a),
        a, acts)

-----------------------------------------------------------------------------
(* The application of the example: its routes, the request bodies they     *)
(* declare, and the descriptors its models declare.                        *)

\* repr: <class 'str'>
ReprStr ==
    <<"<", "c", "l", "a", "s", "s", " ", "'", "s", "t", "r", "'", ">">>

\* repr: typing.Optional[str]
ReprOptionalStr ==
    <<"t", "y", "p", "i", "n", "g", ".", "O", "p", "t", "i", "o", "n",
    "a", "l", "[", "s", "t", "r", "]">>

\* repr: typing.Optional[float]
ReprOptionalFloat ==
    <<"t", "y", "p", "i", "n", "g", ".", "O", "p", "t", "i", "o", "n",
    "a", "l", "[", "f", "l", "o", "a", "t", "]">>

\* repr: typing.Optional[bool]
ReprOptionalBool ==
    <<"t", "y", "p", "i", "n", "g", ".", "O", "p", "t", "i", "o", "n",
    "a", "l", "[", "b", "o", "o", "l", "]">>

\* repr: <class 'int'>
ReprInt ==
    <<"<", "c", "l", "a", "s", "s", " ", "'", "i", "n", "t", "'",
    ">">>

\* repr: typing.List[int]
ReprListInt ==
    <<"t", "y", "p", "i", "n", "g", ".", "L", "i", "s", "t", "[", "i",
    "n", "t", "]">>

FieldInfo(name, annotation, default) ==
    [name |-> name, annotation |-> annotation, default |-> default]

ItemUpdate ==
    <<FieldInfo("name", ReprOptionalStr, VNone),
      FieldInfo("description", ReprOptionalStr, VNone),
      FieldInfo("price", ReprOptionalFloat, VNone)>>

ItemCreate == Append(ItemUpdate, FieldInfo("id_", ReprStr, VUndef))

PersonUpdate ==
    <<FieldInfo("name", ReprOptionalStr, VNone),
      FieldInfo("is_locked", ReprOptionalBool, VNone)>>

\* methods is route.methods, a set, in the order its iteration gives;
\* declared is the order the methods were given in to the decorator
MethodRoute(name, path, declared, methods) ==
    [name |-> name, path |-> path, methods |-> methods, declared |-> declared,
     has_body |-> FALSE, body |-> <<>>]

Route(name, path, methods) == MethodRoute(name, path, methods, methods)

BodyRoute(name, path, methods, body) ==
    [name |-> name, path |-> path, methods |-> methods, declared |-> methods,
     has_body |-> TRUE, body |-> body]

ExampleRoutes ==
    <<Route("read_items", <<Lit("items")>>, <<"GET">>),
      Route("read_item", <<Lit("items"), Par("id_")>>, <<"GET">>),
      BodyRoute("update_item", <<Lit("items"), Par("id_")>>, <<"PUT">>, ItemUpdate),
      Route("read_people", <<Lit("people")>>, <<"GET">>),
      Route("read_person", <<Lit("people"), Par("id_")>>, <<"GET">>),
      BodyRoute("update_person", <<Lit("people"), Par("id_")>>, <<"PUT">>,
                PersonUpdate),
      BodyRoute("put_person_items", <<Lit("people"), Par("id_"), Lit("items")>>,
                <<"PUT">>, ItemCreate)>>

IdParam == [k \in {"id_"} |-> Tag("id_")]

LinkSelf == SirenLinkFor("read_person", IdParam, FALSE, None, <<"self">>)
LinkSelfTemplated ==
    SirenLinkFor("read_person", IdParam, TRUE, "Unlocked", <<"self">>)
LinkItems == SirenLinkFor("read_items", EmptyDict, FALSE, None, <<"items">>)
LinkGhost == SirenLinkFor("ghost", EmptyDict, FALSE, "Unlocked", <<"ghost">>)

ActUpdate ==
    SirenActionFor("update_person", IdParam, FALSE, None, TRUE, None, <<>>,
                   None, "update")
ActFind ==
    SirenActionFor("read_person", IdParam, TRUE, None, TRUE, None, <<>>,
                   None, "find")
ActGhost ==
    SirenActionFor("ghost", EmptyDict, FALSE, "Unlocked", TRUE, None, <<>>,
                   None, "ghost")

-----------------------------------------------------------------------------
(* Bounds.                                                                 *)

MaxLinks == 2
MaxActions == 2

SeqUpTo(S, n) == UNION {[1..k -> S] : k \in 0..n}

LinkDescs == {LinkSelf, LinkSelfTemplated, LinkItems, LinkGhost}
ActionDescs == {ActUpdate, ActFind, ActGhost}

Classes ==
    [links : SeqUpTo(LinkDescs, MaxLinks), actions : SeqUpTo(ActionDescs, MaxActions)]

Apps == {ExampleRoutes}

\* the data of a Person: its id_ and whether it is locked
PersonData ==
    {<<FieldOf("id_", None, VStr(i)), FieldOf("is_locked", None, VBool(b))>> :
        i \in {"", "p1"}, b \in BOOLEAN}

MaxItems == 2
MaxFields == 2

\* an Item given as data: its id_, and the self link its class declares
LinkItemSelf == SirenLinkFor("read_item", IdParam, FALSE, None, <<"self">>)

NewItem(i) ==
    [t |-> "new", links |-> <<LinkItemSelf>>,
     fields |-> <<FieldOf("id_", None, VStr(i))>>]

Items == {NewItem(i) : i \in {"i1", "i2"}}

\* a link value a field holds
HomeLink ==
    [rel |-> <<"home">>, href |-> <<Lit("home")>>, title |-> None,
     type_ |-> None, class_ |-> None]

\* the fields a Person may have besides id_ and is_locked: a sequence of
\* Items, one Item under its name or under an alias, a link, a sequence
\* that mixes an Item with a str, and a str
NestedFields ==
    {FieldOf("items", None, VList(l)) : l \in SeqUpTo(Items, MaxItems)}
    \cup {FieldOf("best", al, NewItem("i1")) : al \in {None, "favourite"}}
    \cup {FieldOf("home", None, VLink(HomeLink)),
          FieldOf("notes", None, VList(<<NewItem("i2"), VStr("n")>>)),
          FieldOf("name", None, VStr("Ann"))}

DistinctNames(fields) ==
    \A i, j \in DOMAIN fields : fields[i].name = fields[j].name => i = j

EmbedData ==
    {<<FieldOf("id_", None, VStr("p1")), FieldOf("is_locked", None, VBool(FALSE))>>
        \o more : more \in {fs \in SeqUpTo(NestedFields, MaxFields) :
                                DistinctNames(fs)}}

EmbedClasses == [links : {<<>>, <<LinkSelf>>}, actions : {<<>>, <<ActUpdate>>}]

MaxBody == 2

\* the annotations a field of a request body may have
Annotations ==
    {ReprStr, ReprOptionalStr, ReprInt, ReprOptionalFloat, ReprOptionalBool,
     ReprListInt}

BodyFields ==
    {FieldInfo(n, an, VNone) : n \in {"name", "id_"}, an \in Annotations}

\* the request bodies: pydantic models of up to MaxBody fields
Bodies == {b \in SeqUpTo(BodyFields, MaxBody) : DistinctNames(b)}

\* an application whose route create_thing takes the body
SchemaRoutes(body) ==
    <<Route("read_person", <<Lit("people"), Par("id_")>>, <<"GET">>),
      BodyRoute("create_thing", <<Lit("things")>>, <<"POST">>, body)>>

SchemaApps == {SchemaRoutes(body) : body \in Bodies}

ActCreate(populate_fields) ==
    SirenActionFor("create_thing", EmptyDict, FALSE, None, populate_fields,
                   None, <<>>, None, "create")

\* descriptors declared without rel, and left with the default name
LinkNoRel == SirenLinkFor("read_items", EmptyDict, FALSE, None, <<>>)
LinkNoRelUnlocked ==
    SirenLinkFor("read_items", EmptyDict, FALSE, "Unlocked", <<>>)
ActNoName ==
    SirenActionFor("update_person", IdParam, FALSE, None, TRUE, None, <<>>,
                   None, "")
ActNoNameUnlocked ==
    SirenActionFor("update_person", IdParam, FALSE, "Unlocked", TRUE, None,
                   <<>>, None, "")

MandatoryClasses ==
    [links : SeqUpTo({LinkSelf, LinkNoRel, LinkNoRelUnlocked}, MaxLinks),
     actions : SeqUpTo({ActUpdate, ActNoName, ActNoNameUnlocked}, MaxActions)]

\* an action a field holds
HeldAction ==
    [name |-> "held", method |-> "GET", href |-> <<Lit("held")>>,
     type_ |-> None, fields |-> <<>>, templated |-> FALSE, title |-> None,
     class_ |-> None]

\* the fields a Person may have besides id_ and is_locked: fields named after
\* keys of the envelope, empty and mixed values, and actions
OtherFields ==
    {FieldOf("title", None, VStr("T")),
     FieldOf("rel", None, VStr("r")),
     FieldOf("class_", "class", VStr("c")),
     FieldOf("extras", "entities", VStr("e")),
     FieldOf("props", "properties", VStr("x")),
     FieldOf("name", None, VStr("Ann")),
     FieldOf("nick", None, VStr("")),
     FieldOf("tags", None, VList(<<>>)),
     FieldOf("notes", None, VList(<<NewItem("i2"), VStr("n")>>)),
     FieldOf("items", None, VList(<<NewItem("i1")>>)),
     FieldOf("act", None, VAction(HeldAction)),
     FieldOf("acts", None, VList(<<VAction(HeldAction)>>))}

FieldData ==
    {<<FieldOf("id_", None, VStr("p1")), FieldOf("is_locked", None, VBool(FALSE))>>
        \o more : more \in {fs \in SeqUpTo(OtherFields, MaxFields) :
                                DistinctNames(fs)}}

FieldClasses == [links : {<<>>, <<LinkSelf>>}, actions : {<<>>, <<ActUpdate>>}]

MaxMethods == 2

MaxContent == 2

\* the links and actions a content may hold, whole or lacking a key
LinkDicts ==
    {[rel |-> <<"self">>, href |-> <<Lit("people")>>],
     [rel |-> <<"self">>],
     [href |-> <<Lit("people")>>]}

ActionDicts ==
    {[name |-> "find", href |-> <<Lit("people")>>],
     [name |-> "find"],
     [href |-> <<Lit("people")>>]}

\* the contents a route hands to SirenResponse
Contents ==
    [links : SeqUpTo(LinkDicts, MaxContent),
     actions : SeqUpTo(ActionDicts, MaxContent)]

Methods == {"PUT", "POST", "PATCH"}

Range(seq) == {seq[i] : i \in DOMAIN seq}

\* the methods a route is declared with, in the order of the declaration
MethodLists ==
    {ms \in SeqUpTo(Methods, MaxMethods) : Cardinality(Range(ms)) = Len(ms)}

\* the orders the iteration of the set of these methods can have
Orders(declared) == {ms \in MethodLists : Range(ms) = Range(declared)}

\* an application whose route upsert_thing takes these methods
MethodRoutes(declared, methods) ==
    <<Route("read_person", <<Lit("people"), Par("id_")>>, <<"GET">>),
      MethodRoute("upsert_thing", <<Lit("things")>>, declared, methods)>>

MethodApps ==
    UNION {{MethodRoutes(declared, methods) : methods \in Orders(declared)} :
            declared \in MethodLists}

ActUpsert ==
    SirenActionFor("upsert_thing", EmptyDict, FALSE, None, TRUE, None, <<>>,
                   None, "upsert")
ActUpsertPost ==
    SirenActionFor("upsert_thing", EmptyDict, FALSE, None, TRUE, None, <<>>,
                   "POST", "upsert")

MethodClasses ==
    [links : {<<>>, <<LinkSelf>>}, actions : {<<ActUpsert>>, <<ActUpsertPost>>}]

\* SirenFieldType(name=..., type=...), declared on a descriptor
SirenFieldType(name, type_, value) ==
    [name |-> name, type_ |-> type_, value |-> value]

\* the same action, with its fields declared
ActCreateExplicit ==
    SirenActionFor("create_thing", EmptyDict, FALSE, None, TRUE, None,
                   <<SirenFieldType("id_", "text", VNone),
                     SirenFieldType("note", "text", VStr("n"))>>,
                   None, "create")

SchemaClasses ==
    [links : {<<>>, <<LinkSelf>>},
     actions : {<<ActCreate(populate)>> : populate \in BOOLEAN}
                \cup {<<ActCreateExplicit>>}]

-----------------------------------------------------------------------------
(* The state machine.                                                      *)

\* no envelope was looked into yet
NoLookup ==
    [response |-> [links |-> <<>>, actions |-> <<>>], helper |-> "none",
     key |-> <<>>, out |-> [kind |-> "None"]]

NoBody == <<>>

\* JSONResponse.render: the bytes of the content
JsonBytes(content) == <<content>>

NoResponse ==
    [pc |-> "idle", content |-> [links |-> <<>>, actions |-> <<>>],
     validated |-> FALSE, body |-> NoBody]

NoOutcome == [status |-> "none", error |-> None]

\* a nested model given as data is constructed, with its own validators,
\* before the validators of the model that holds it
Built(r) ==
    IF r.status = "ok" THEN VModel(r.value)
    ELSE [t |-> "failed", error |-> r.error]

BuildElem(a, e) ==
    IF e.t # "new" THEN e
    ELSE Built(Construct(a, e.links, <<>>, e.fields).out)

BuildValue(a, v) ==
    IF v.t = "list"
    THEN VList([i \in DOMAIN v.items |-> BuildElem(a, v.items[i])])
    ELSE BuildElem(a, v)

BuildFields(a, fields) ==
    [i \in DOMAIN fields |->
        [fields[i] EXCEPT !.value = BuildValue(a, fields[i].value)]]

RECURSIVE Flatten(_)
Flatten(fields) ==
    IF fields = <<>> THEN <<>>
    ELSE Elements(Head(fields).value) \o Flatten(Tail(fields))

FailedElems(fields) == SelectSeq(Flatten(fields), LAMBDA e : e.t = "failed")

\* SirenHyperModel(**data): the outcome and the action descriptors afterwards
WithBuilt(a, links, acts, fields, failed) ==
    IF failed # <<>>
    THEN [out |-> Raised(Head(failed).error), acts |-> acts]
    ELSE Construct(a, links, acts, fields)

WithFieldsBuilt(a, links, acts, fields) ==
    WithBuilt(a, links, acts, fields, FailedElems(fields))

NewModel(a, links, acts, data) ==
    WithFieldsBuilt(a, links, acts, BuildFields(a, data))

Init ==
    /\ app = NoApp
    /\ cls \in Classes
    /\ actions = cls.actions
    /\ last = [app |-> NoApp, data |-> <<>>, out |-> NoOutcome, again |-> FALSE]
    /\ response = NoResponse
    /\ found = NoLookup

\* HyperModel.init_app
InitApp(routes) ==
    /\ IsNoApp(app)
    /\ app' = Starlette(routes)
    /\ UNCHANGED <<cls, actions, last, response, found>>

\* constructing an instance of the class from data
\* last.again: the construction before it had the same application and data
Resolve(data) ==
    LET r == NewModel(app, cls.links, actions, data)
    IN /\ actions' = r.acts
       /\ last' = [app |-> app, data |-> data, out |-> r.out,
                   again |-> /\ last.out.status # "none"
                             /\ last.app = app
                             /\ last.data = data]
       /\ UNCHANGED <<app, cls, response, found>>

\* the first construction of the process
ResolveFirst(data) == last.out = NoOutcome /\ Resolve(data)

Next ==
    \/ \E routes \in Apps : InitApp(routes)
    \/ \E data \in PersonData : Resolve(data)

Spec == Init /\ [][Next]_vars

\* the data of a model without is_locked, next to those of a Person
BareData == {<<FieldOf("id_", None, VStr("p1"))>>}

\* a first construction, with or without an application
NextNoApp ==
    \/ \E routes \in Apps : InitApp(routes)
    \/ \E data \in PersonData \cup BareData : ResolveFirst(data)

SpecNoApp == Init /\ [][NextNoApp]_vars

\* models with nested models
InitEmbed ==
    /\ app = NoApp
    /\ cls \in EmbedClasses
    /\ actions = cls.actions
    /\ last = [app |-> NoApp, data |-> <<>>, out |-> NoOutcome, again |-> FALSE]
    /\ response = NoResponse
    /\ found = NoLookup

NextEmbed ==
    \/ \E routes \in Apps : InitApp(routes)
    \/ \E data \in EmbedData : ResolveFirst(data)

SpecEmbed == InitEmbed /\ [][NextEmbed]_vars

\* an action whose route takes a request body
InitSchema ==
    /\ app = NoApp
    /\ cls \in SchemaClasses
    /\ actions = cls.actions
    /\ last = [app |-> NoApp, data |-> <<>>, out |-> NoOutcome, again |-> FALSE]
    /\ response = NoResponse
    /\ found = NoLookup

NextSchema ==
    \/ \E routes \in SchemaApps : InitApp(routes)
    \/ \E data \in PersonData : Resolve(data)

SpecSchema == InitSchema /\ [][NextSchema]_vars

\* the Siren schema: a link has rel and href, an action has name and href
Conforms(content) ==
    /\ \A i \in DOMAIN content.links :
        {"rel", "href"} \subseteq DOMAIN content.links[i]
    /\ \A i \in DOMAIN content.actions :
        {"name", "href"} \subseteq DOMAIN content.actions[i]

\* mutant: only the links are validated
_validate_links(content) ==
    \A i \in DOMAIN content.links :
        {"rel", "href"} \subseteq DOMAIN content.links[i]

\* SirenResponse._validate: jsonschema.validate returns, or raises
_validate(content) == Conforms(content)

\* SirenResponse.render is called with a content
RenderCall(content) ==
    /\ response.pc \in {"idle", "done", "raised"}
    /\ response' = [pc |-> "validate", content |-> content,
                    validated |-> FALSE, body |-> NoBody]
    /\ UNCHANGED <<app, cls, actions, last, found>>

\* render: self._validate(content)
Validate ==
    /\ response.pc = "validate"
    /\ response' =
        IF _validate(response.content)
        THEN [response EXCEPT !.pc = "render", !.validated = TRUE]
        ELSE [response EXCEPT !.pc = "raised"]
    /\ UNCHANGED <<app, cls, actions, last, found>>

\* render: return super().render(content)
SuperRender ==
    /\ response.pc = "render"
    /\ response' = [response EXCEPT !.pc = "done",
                                    !.body = JsonBytes(response.content)]
    /\ UNCHANGED <<app, cls, actions, last, found>>

InitRender ==
    /\ app = NoApp
    /\ cls = [links |-> <<>>, actions |-> <<>>]
    /\ actions = <<>>
    /\ last = [app |-> NoApp, data |-> <<>>, out |-> NoOutcome, again |-> FALSE]
    /\ response = NoResponse
    /\ found = NoLookup

NextRender ==
    \/ \E content \in Contents : RenderCall(content)
    \/ Validate
    \/ SuperRender

SpecRender == InitRender /\ [][NextRender]_vars

\* strings as the sequences of their characters
Keys == {<<>>, <<"a">>, <<"b">>, <<"a", "b">>}

Names == Keys \ {<<>>}

\* the links and the actions of a received envelope
EnvelopeLinks ==
    [rel : {<<n>> : n \in Names} \cup {<<<<"b">>, <<"a">>>>},
     href : {<<Lit("people")>>}]

EnvelopeActions == [name : Names, href : {<<Lit("people")>>}]

Envelopes ==
    [links : SeqUpTo(EnvelopeLinks, MaxContent),
     actions : SeqUpTo(EnvelopeActions, MaxContent)]

\* x in y of two str: x occurs in y
InStr(x, y) ==
    \E i \in 0..(Len(y) - Len(x)) : SubSeq(y, i + 1, i + Len(x)) = x

\* x in y of a list y
InList(x, y) == \E i \in DOMAIN y : y[i] = x

\* next((e for e in seq if ...), None) over the positions that match
NextOf(seq, matching, kind) ==
    IF matching = {}
    THEN [kind |-> "None"]
    ELSE [kind |-> kind, value |-> seq[CHOOSE i \in matching : \A j \in matching : i <= j]]

get_siren_link(envelope, link_name) ==
    NextOf(envelope.links, {i \in DOMAIN envelope.links : InList(link_name, envelope.links[i].rel)}, "SirenLinkType")

get_siren_action(envelope, action_name) ==
    NextOf(envelope.actions, {i \in DOMAIN envelope.actions : InStr(action_name, envelope.actions[i].name)}, "SirenActionType")

GetSirenLink(link_name) ==
    /\ found.helper = "none"
    /\ found' = [found EXCEPT !.helper = "get_siren_link", !.key = link_name,
                              !.out = get_siren_link(found.response, link_name)]
    /\ UNCHANGED <<app, cls, actions, last, response>>

GetSirenAction(action_name) ==
    /\ found.helper = "none"
    /\ found' = [found EXCEPT !.helper = "get_siren_action", !.key = action_name,
                              !.out = get_siren_action(found.response, action_name)]
    /\ UNCHANGED <<app, cls, actions, last, response>>

InitLookup ==
    /\ app = NoApp
    /\ cls = [links |-> <<>>, actions |-> <<>>]
    /\ actions = <<>>
    /\ last = [app |-> NoApp, data |-> <<>>, out |-> NoOutcome, again |-> FALSE]
    /\ response = NoResponse
    /\ found \in {[NoLookup EXCEPT !.response = e] : e \in Envelopes}

NextLookup ==
    \/ \E link_name \in Keys : GetSirenLink(link_name)
    \/ \E action_name \in Keys : GetSirenAction(action_name)

SpecLookup == InitLookup /\ [][NextLookup]_vars

\* models with fields of every kind
InitFields ==
    /\ app = NoApp
    /\ cls \in FieldClasses
    /\ actions = cls.actions
    /\ last = [app |-> NoApp, data |-> <<>>, out |-> NoOutcome, again |-> FALSE]
    /\ response = NoResponse
    /\ found = NoLookup

NextFields ==
    \/ \E routes \in Apps : InitApp(routes)
    \/ \E data \in FieldData : ResolveFirst(data)

SpecFields == InitFields /\ [][NextFields]_vars

\* descriptors that lack a mandatory field
InitMandatory ==
    /\ app = NoApp
    /\ cls \in MandatoryClasses
    /\ actions = cls.actions
    /\ last = [app |-> NoApp, data |-> <<>>, out |-> NoOutcome, again |-> FALSE]
    /\ response = NoResponse
    /\ found = NoLookup

NextMandatory ==
    \/ \E routes \in Apps : InitApp(routes)
    \/ \E data \in PersonData : Resolve(data)

SpecMandatory == InitMandatory /\ [][NextMandatory]_vars

\* an action whose route takes several methods
InitMethods ==
    /\ app = NoApp
    /\ cls \in MethodClasses
    /\ actions = cls.actions
    /\ last = [app |-> NoApp, data |-> <<>>, out |-> NoOutcome, again |-> FALSE]
    /\ response = NoResponse
    /\ found = NoLookup

NextMethods ==
    \/ \E routes \in MethodApps : InitApp(routes)
    \/ \E data \in PersonData : Resolve(data)

SpecMethods == InitMethods /\ [][NextMethods]_vars

-----------------------------------------------------------------------------
(* What the claims speak of.                                               *)

Done == last.out.status # "none"
Succeeded == last.out.status = "ok"
Failed == last.out.status = "error"
Initialised == ~IsNoApp(last.app)

\* the properties bag the descriptors of the last construction were given
ValuesOf(a, data) ==
    add_properties(add_hypermodels_to_entities(
        [properties |-> EmptyDict, entities |-> <<>>, links |-> <<>>,
         actions |-> <<>>, attrs |-> BuildFields(a, data)])).properties

LastValues == ValuesOf(last.app, last.data)

\* the condition of a descriptor is absent or evaluates true
Included(d) == d.condition = None \/ EvalCondition(d.condition, LastValues)

IncludedLinks == SelectSeq(cls.links, Included)
IncludedActions == SelectSeq(cls.actions, Included)

HasSelf(links) == \E i \in DOMAIN links : links[i].rel = <<"self">>
SelfCount(links) == Cardinality({i \in DOMAIN links : links[i].rel = <<"self">>})

LinkOutcome(i) == LinkCall(cls.links[i], last.app, LastValues)
LinkFails(i) == LinkOutcome(i).status = "error"
NoLinkFails == \A i \in DOMAIN cls.links : ~LinkFails(i)
ResolvedLinkCount ==
    Cardinality({i \in DOMAIN cls.links : LinkOutcome(i).status = "ok"})
SelfResolved ==
    \E i \in DOMAIN cls.links :
        LinkOutcome(i).status = "ok" /\ cls.links[i].rel = <<"self">>

\* C1 as claimed, for an initialised application: a model that declares
\* links either resolves with a link whose rel is ["self"] or fails.
C1_AsClaimed ==
    (Done /\ Initialised /\ cls.links # <<>>) =>
        \/ Succeeded /\ HasSelf(last.out.value.links)
        \/ Failed

\* C1, amended: a model that declares links resolves with no link at all
\* (each one omitted) or with a link whose rel is ["self"], or fails; it fails
\* with the missing-self-link error exactly when every declared link resolves
\* or is omitted, at least one resolves, and none that resolves has rel
\* ["self"].
C1_SelfLinkOrNone ==
    (Done /\ cls.links # <<>>) =>
        /\ Succeeded =>
            \/ last.out.value.links = <<>>
            \/ HasSelf(last.out.value.links)
        /\ (Failed /\ last.out.error = "MissingSelfLink") <=>
            (NoLinkFails /\ ResolvedLinkCount > 0 /\ ~SelfResolved)

\* witness of C1: the declared self link is omitted by its condition, another
\* link resolves, and the construction fails for want of a self link
C1_Witness ==
    /\ Failed /\ last.out.error = "MissingSelfLink"
    /\ HasSelf(cls.links)

C3_DeclarationOrder ==
    (Succeeded /\ Initialised) =>
        /\ last.out.value.links =
            [i \in DOMAIN IncludedLinks |->
                LinkCall(IncludedLinks[i], last.app, LastValues).value]
        /\ Len(last.out.value.actions) = Len(IncludedActions)
        /\ \A i \in DOMAIN IncludedActions :
            /\ last.out.value.actions[i].name = IncludedActions[i].name
            /\ last.out.value.actions[i].templated = IncludedActions[i].templated

\* witness of C3: a declared link is omitted by its condition while another
\* resolves, and two different actions resolve in their order
C3_Witness ==
    /\ Succeeded /\ Initialised
    /\ Len(last.out.value.links) = 1
    /\ Len(cls.links) = 2
    /\ Len(last.out.value.actions) = 2
    /\ last.out.value.actions[1].name # last.out.value.actions[2].name

Unregistered(d) == ~HasRoute(last.app, d.endpoint)

DeclaresUnregistered ==
    \/ \E i \in DOMAIN cls.links : Unregistered(cls.links[i])
    \/ \E i \in DOMAIN cls.actions : Unregistered(cls.actions[i])

\* what a declared action descriptor raises does not depend on what it cached
ActionFails(i) ==
    ActionCall(cls.actions[i], last.app, LastValues).out.status = "error"

LinksPass == NoLinkFails /\ (ResolvedLinkCount = 0 \/ SelfResolved)

\* an unregistered descriptor whose condition passes
UnregisteredIncluded ==
    \/ \E i \in DOMAIN cls.links :
        Unregistered(cls.links[i]) /\ Included(cls.links[i])
    \/ \E i \in DOMAIN cls.actions :
        Unregistered(cls.actions[i]) /\ Included(cls.actions[i])

\* ... and nothing before it in the construction raises
UnregisteredFirst ==
    \/ \E i \in DOMAIN cls.links :
        /\ Unregistered(cls.links[i]) /\ Included(cls.links[i])
        /\ \A j \in 1..(i - 1) : ~LinkFails(j)
    \/ /\ LinksPass
       /\ \E i \in DOMAIN cls.actions :
            /\ Unregistered(cls.actions[i]) /\ Included(cls.actions[i])
            /\ \A j \in 1..(i - 1) : ~ActionFails(j)

\* C4 as claimed: with an application, a model that declares a descriptor of
\* an unregistered endpoint never resolves, whatever the condition gives.
C4_AsClaimed == (Done /\ Initialised /\ DeclaresUnregistered) => Failed

\* C4, amended: with an application, a descriptor of an unregistered endpoint
\* whose condition is absent or true makes the construction fail, and with the
\* unknown-route error unless an earlier link, the self-link check or an
\* earlier action raises first; a descriptor whose condition is false is
\* omitted before any route lookup.
C4_UnknownRouteWhenIncluded ==
    (Done /\ Initialised) =>
        /\ UnregisteredIncluded => Failed
        /\ UnregisteredFirst => (Failed /\ last.out.error = "UnknownRoute")

\* witness of C4: an action of an unregistered endpoint, declared after one
\* that resolves, fails the construction with the unknown-route error
C4_Witness ==
    /\ Initialised /\ Failed /\ last.out.error = "UnknownRoute"
    /\ Len(cls.actions) = 2
    /\ ~Unregistered(cls.actions[1]) /\ Unregistered(cls.actions[2])

RoutePath(d) == get_route_from_app(last.app, d.endpoint).path

AllTemplated ==
    /\ \A i \in DOMAIN cls.links : cls.links[i].templated
    /\ \A i \in DOMAIN cls.actions : cls.actions[i].templated

\* C5: the href of a resolved templated link or action is the path template
\* of its route whatever the values are, and a model whose descriptors are
\* all templated never fails for a missing attribute.
C5_TemplatedHref ==
    (Done /\ Initialised) =>
        /\ Succeeded =>
            /\ \A i \in DOMAIN IncludedLinks :
                IncludedLinks[i].templated =>
                    last.out.value.links[i].href = RoutePath(IncludedLinks[i])
            /\ \A i \in DOMAIN IncludedActions :
                IncludedActions[i].templated =>
                    last.out.value.actions[i].href = RoutePath(IncludedActions[i])
        /\ AllTemplated => ~(Failed /\ last.out.error = "MissingAttribute")

\* witness of C5: the values lack id_, and a templated link and a templated
\* action resolve to /people/{id_}
C5_Witness ==
    /\ Succeeded /\ Initialised
    /\ "id_" \notin DOMAIN last.out.value.properties
    /\ Len(last.out.value.links) = 1
    /\ last.out.value.links[1].href = <<Lit("people"), Par("id_")>>
    /\ Len(last.out.value.actions) = 1
    /\ last.out.value.actions[1].href = <<Lit("people"), Par("id_")>>

\* C7: a construction from the same data, with the same application, as the
\* one before it gives the same outcome.
C7_Idempotent == [][last'.again => last'.out = last.out]_vars

\* witness of C7: a second construction from the same data, with actions that
\* carry fields
C7_Witness ==
    /\ last.again /\ Succeeded /\ Initialised
    /\ Len(last.out.value.actions) = 2
    /\ last.out.value.actions[1].fields # <<>>

\* C8 as claimed: whatever was resolved before, a construction gives what
\* never-called copies of the declared descriptors give for the same data.
C8_Stateless ==
    Done => last.out = NewModel(last.app, cls.links, cls.actions, last.data).out

\* C9 as claimed: no call changes a descriptor.
C9_DescriptorUnchanged == [][actions' = actions]_vars

\* the envelope a nested model given as data has on its own
ChildEnvelope(e) == Construct(last.app, e.links, <<>>, e.fields).out.value

WithRel(dump, rel) ==
    [k \in DOMAIN dump \cup {"rel"} |-> IF k = "rel" THEN rel ELSE dump[k]]

IsNested(e) == e.t = "new"
IsNestedOrLink(e) == e.t \in {"new", "link"}

\* the elements of the value a field is given
Given(f) == Elements(f.value)

\* a field of nested models only
NestedOnly(f) ==
    /\ Given(f) # <<>>
    /\ \A i \in DOMAIN Given(f) : IsNested(Given(f)[i])

\* a field of nested models and links only
EmbeddedField(f) ==
    /\ AliasOf(f) \notin SIREN_RESERVED_FIELDS
    /\ \A i \in DOMAIN Given(f) : IsNestedOrLink(Given(f)[i])

ClaimedOfField(f) ==
    IF ~NestedOnly(f) THEN <<>>
    ELSE [i \in DOMAIN Given(f) |->
            WithRel(serialize(ChildEnvelope(Given(f)[i])), <<f.name>>)]

ExpectedOfField(f) ==
    IF ~EmbeddedField(f) THEN <<>>
    ELSE [i \in DOMAIN Given(f) |->
            IF Given(f)[i].t = "link" THEN Given(f)[i].link
            ELSE WithRel(serialize(ChildEnvelope(Given(f)[i])), <<AliasOf(f)>>)]

RECURSIVE ClaimedEntities(_)
ClaimedEntities(fields) ==
    IF fields = <<>> THEN <<>>
    ELSE ClaimedOfField(Head(fields)) \o ClaimedEntities(Tail(fields))

RECURSIVE ExpectedEntities(_)
ExpectedEntities(fields) ==
    IF fields = <<>> THEN <<>>
    ELSE ExpectedOfField(Head(fields)) \o ExpectedEntities(Tail(fields))

DeclaredType(annotation) ==
    CASE annotation \in {ReprStr, ReprOptionalStr} -> "text"
      [] annotation \in {ReprInt, ReprOptionalFloat} -> "number"
      [] OTHER -> "text"

BodyOf(d) == get_route_from_app(last.app, d.endpoint).body

\* C10 as claimed: an action declared without fields has one field for each
\* field of the body of its route, in the order of the body, with its name
\* and the semantic type of its declared type.
C10_AsClaimed ==
    (Succeeded /\ Initialised) =>
        \A i \in DOMAIN IncludedActions :
            IncludedActions[i].fields = <<>> =>
                /\ Len(last.out.value.actions[i].fields) =
                    Len(BodyOf(IncludedActions[i]))
                /\ \A k \in DOMAIN BodyOf(IncludedActions[i]) :
                    /\ last.out.value.actions[i].fields[k].name =
                        BodyOf(IncludedActions[i])[k].name
                    /\ last.out.value.actions[i].fields[k].type_ =
                        DeclaredType(BodyOf(IncludedActions[i])[k].annotation)

\* the value the claim gives a synthesized field: the entry of the values
\* when there is one, the default of the schema otherwise
ClaimedValue(d, info, values) ==
    IF d.populate_fields /\ info.name \in DOMAIN values
    THEN values[info.name]
    ELSE info.default

ClaimedValues(d, resolved, body, values) ==
    /\ Len(resolved.fields) = Len(body)
    /\ \A k \in DOMAIN body :
        resolved.fields[k].value = ClaimedValue(d, body[k], values)

\* C11 as claimed: an action resolved by a descriptor that was never called
\* before has, for each field of the body, the entry of the values for the
\* name of the field when there is one and populate_fields is set, and the
\* default of the schema otherwise.
C11_AsClaimed ==
    [][(actions = cls.actions /\ last'.out.status = "ok" /\ ~IsNoApp(app)) =>
        \A i \in DOMAIN last'.out.value.actions :
            cls.actions[i].fields = <<>> =>
            ClaimedValues(cls.actions[i], last'.out.value.actions[i],
                          get_route_from_app(app, cls.actions[i].endpoint).body,
                          last'.out.value.properties)]_vars

\* C12 as claimed: an action resolved by a never-called descriptor that
\* declares fields has those fields, in their order, with their names and
\* types, and with the entry of the values as value when there is one.
C12_AsClaimed ==
    [][(actions = cls.actions /\ last'.out.status = "ok" /\ ~IsNoApp(app)) =>
        \A i \in DOMAIN last'.out.value.actions :
            cls.actions[i].fields # <<>> =>
                /\ Len(last'.out.value.actions[i].fields) =
                    Len(cls.actions[i].fields)
                /\ \A k \in DOMAIN cls.actions[i].fields :
                    /\ last'.out.value.actions[i].fields[k].name =
                        cls.actions[i].fields[k].name
                    /\ last'.out.value.actions[i].fields[k].type_ =
                        cls.actions[i].fields[k].type_
                    /\ last'.out.value.actions[i].fields[k].value =
                        ClaimedValue(cls.actions[i],
                            [name |-> cls.actions[i].fields[k].name,
                             default |-> cls.actions[i].fields[k].value],
                            last'.out.value.properties)]_vars

\* the route of the only action of the class, in the application of the last
\* construction
LastRoute == get_route_from_app(last.app, cls.actions[1].endpoint)

NoMethodDeclared == cls.actions[1].method = None

\* C13 as claimed: the action a descriptor without a method resolves to has
\* the first of the methods the route was declared with.
C13_AsClaimed ==
    (Succeeded /\ Initialised /\ NoMethodDeclared) =>
        last.out.value.actions[1].method = Head(LastRoute.declared)

\* C13, amended: the action a descriptor without a method resolves to has
\* one of the methods of the route, the first the iteration of the set of
\* its methods gives, which is the declared one when there is exactly one;
\* it is the same at every resolution with the same application, and a route
\* with methods never makes the construction fail for a missing method.
C13_SomeMethodOfRoute ==
    [][(last'.out.status # "none" /\ ~IsNoApp(last'.app) /\ NoMethodDeclared) =>
        LET route == get_route_from_app(last'.app, cls.actions[1].endpoint)
        IN /\ last'.out.status = "ok" =>
                /\ last'.out.value.actions[1].method \in Range(route.declared)
                /\ last'.out.value.actions[1].method = Head(route.methods)
                /\ Len(route.declared) = 1 =>
                    last'.out.value.actions[1].method = route.declared[1]
                /\ (last.out.status = "ok" /\ last.app = last'.app) =>
                    last'.out.value.actions[1].method =
                        last.out.value.actions[1].method
           /\ route.declared # <<>> =>
                ~(last'.out.status = "error" /\ last'.out.error = "InvalidMethod")]_vars

\* witness of C13: a route declared with PUT then POST whose set gives POST
\* first, resolved twice
C13_Witness ==
    /\ Succeeded /\ Initialised /\ NoMethodDeclared /\ last.again
    /\ LastRoute.declared = <<"PUT", "POST">>
    /\ last.out.value.actions[1].method = "POST"

\* a declared descriptor whose condition passes lacks rel, or name
LacksMandatory ==
    \/ \E i \in DOMAIN cls.links :
        Included(cls.links[i]) /\ cls.links[i].rel = <<>>
    \/ \E i \in DOMAIN cls.actions :
        Included(cls.actions[i]) /\ cls.actions[i].name = ""

\* C14: no resolved link has an empty rel or href and no resolved action an
\* empty name or href; with an application, a descriptor whose condition
\* passes and that lacks rel or name makes the construction fail.
C14_MandatoryFields ==
    /\ Succeeded =>
        /\ \A i \in DOMAIN last.out.value.links :
            /\ last.out.value.links[i].rel # <<>>
            /\ last.out.value.links[i].href # <<>>
        /\ \A i \in DOMAIN last.out.value.actions :
            /\ last.out.value.actions[i].name # ""
            /\ last.out.value.actions[i].href # <<>>
    /\ (Done /\ Initialised /\ LacksMandatory) => Failed

\* witness of C14: an action left with the default name, declared alone,
\* fails the construction in the validation of the action
C14_Witness ==
    /\ Initialised /\ Failed /\ last.out.error = "InvalidField"
    /\ cls.links = <<>> /\ cls.actions = <<ActNoNameUnlocked>>

\* the keys of the envelope the claim reserves
StructuralKeys ==
    {"properties", "links", "actions", "entities", "rel", "class", "title"}

\* C15 as claimed: a model with a field named after a key of the envelope
\* fails, and no envelope has such a key in its properties.
C15_AsClaimed ==
    /\ (Done /\ \E i \in DOMAIN last.data :
                    AliasOf(last.data[i]) \in StructuralKeys) => Failed
    /\ Succeeded => DOMAIN last.out.value.properties \cap StructuralKeys = {}

\* where a field given as data is after the construction
InProperties(f) == AliasOf(f) \in DOMAIN last.out.value.properties

InEntities(f) ==
    \E i \in DOMAIN last.out.value.entities :
        /\ "rel" \in DOMAIN last.out.value.entities[i]
        /\ last.out.value.entities[i].rel = <<AliasOf(f)>>

Remains(f) ==
    \E i \in DOMAIN last.out.value.attrs :
        last.out.value.attrs[i].name = f.name

\* C18 as claimed: after a construction every field that is not one of
\* properties, entities, links and actions is in exactly one of the
\* properties and the entities, and is no attribute of the model any more.
C18_AsClaimed ==
    Succeeded =>
        \A i \in DOMAIN last.data :
            AliasOf(last.data[i]) \notin SIREN_RESERVED_FIELDS =>
                /\ InProperties(last.data[i]) # InEntities(last.data[i])
                /\ ~Remains(last.data[i])

\* a field holds an action, itself or in a sequence
HoldsAction(f) ==
    \E i \in DOMAIN Elements(f.value) : Elements(f.value)[i].t = "action"

\* C19 as claimed: a model with a field, other than actions, that holds an
\* action, itself or in a sequence, fails.
C19_AsClaimed ==
    (Done /\ \E i \in DOMAIN last.data : HoldsAction(last.data[i])) => Failed

\* C16: a body is rendered only of a content that was validated and
\* conforms; when the validation fails render raises and there is no body.
C16_ValidatedBeforeRendered ==
    /\ response.body # NoBody =>
        (response.validated /\ Conforms(response.content))
    /\ response.pc = "render" => response.validated
    /\ response.pc = "raised" =>
        (response.body = NoBody /\ ~Conforms(response.content))

\* witness of C16: render raised for an action without name
C16_Witness ==
    /\ response.pc = "raised" /\ response.body = NoBody
    /\ response.content.links = <<>>
    /\ Len(response.content.actions) = 1
    /\ "name" \notin DOMAIN response.content.actions[1]

\* the positions of the actions named exactly so
NamedExactly(envelope, name) ==
    {i \in DOMAIN envelope.actions : envelope.actions[i].name = name}

\* C17: get_siren_action returns the first action whose name equals the
\* requested name and nothing when no action has exactly that name;
\* get_siren_link returns the first link whose rel list contains the
\* requested rel and nothing when none does.
C17_AsClaimed ==
    /\ found.helper = "get_siren_action" =>
        found.out = NextOf(found.response.actions, NamedExactly(found.response, found.key), "SirenActionType")
    /\ found.helper = "get_siren_link" =>
        /\ found.out.kind = "None" <=>
            \A i \in DOMAIN found.response.links :
                \A j \in DOMAIN found.response.links[i].rel :
                    found.response.links[i].rel[j] # found.key
        /\ found.out.kind # "None" =>
            \E i \in DOMAIN found.response.links :
                /\ found.out.value = found.response.links[i]
                /\ \E j \in DOMAIN found.response.links[i].rel :
                    found.response.links[i].rel[j] = found.key
                /\ \A k \in 1..(i - 1) :
                    \A j \in DOMAIN found.response.links[k].rel :
                        found.response.links[k].rel[j] # found.key

\* C20: without an initialised application every link and action descriptor
\* is omitted, its condition not evaluated and its route not looked up (no
\* error of either, nothing cached on the descriptor), and the construction
\* succeeds with empty links and actions, whatever links the class declares.
C20_NoAppOmitsAll ==
    (Done /\ ~Initialised) =>
        /\ Succeeded
        /\ last.out.value.links = <<>>
        /\ last.out.value.actions = <<>>
        /\ \A i \in DOMAIN cls.links : LinkOutcome(i) = Omitted
        /\ \A i \in DOMAIN cls.actions :
            ActionCall(cls.actions[i], last.app, LastValues) = [out |-> Omitted, d |-> cls.actions[i]]
        /\ actions = cls.actions

\* witness of C20: a class declaring links without a self link, a link and an
\* action of an unknown route whose condition cannot be evaluated on the data
C20_Witness ==
    /\ Done /\ ~Initialised /\ Succeeded
    /\ cls.links = <<LinkItems, LinkGhost>>
    /\ cls.actions = <<ActGhost>>
    /\ ~CanEval("Unlocked", LastValues)
    /\ last.out.value.links = <<>>

====
